---- MODULE Spec2Model ----
(***************************************************************************)
(* Model of the blog controllers of server2 (blogsController.ts): the      *)
(* article store, the create / update / delete request handlers with their *)
(* suspension points (every await is a point where other requests run),    *)
(* and the cursor-paginated feed as a client follows it.                   *)
(***************************************************************************)
EXTENDS Integers, Sequences, FiniteSets, Bags, TLC

VARIABLES
    blogs,      \* the collection: _id -> stored document
    nextId,     \* the next _id the store hands out
    now,        \* the clock read by new Date(), in milliseconds
    inflight,   \* bag of requests suspended at an await
    lastResp,   \* the response most recently sent
    chain,      \* a client following nextCursor through the feed
    scen        \* progress of the create / create / delete / create sequence

vars == <<blogs, nextId, now, inflight, lastResp, chain, scen>>

---------------------------------------------------------------------------
(* Bounds of the model. *)

MaxBlogs == 3       \* articles ever inserted
MaxInflight == 2    \* requests suspended at the same time
MaxTime == 2        \* clock values 1..MaxTime
MaxLimit == 2       \* page sizes a client asks for
MaxEdited == 1      \* articles inserted while every input is tried
MaxListed == 2      \* articles inserted while a client pages through the feed
MaxOwned == 1       \* articles inserted while identities are tried
MaxFeedInflight == 1 \* requests suspended while a client pages through the feed

DefaultLimit == 10

---------------------------------------------------------------------------
(* Text is a sequence of one-character strings, so that slugs are built    *)
(* and compared the way the code builds and compares them.                 *)

NoText == <<>>

ToLower == ("H" :> "h") @@ ("J" :> "j") @@ ("S" :> "s")

Lower(ch) == IF ch \in DOMAIN ToLower THEN ToLower[ch] ELSE ch

IsAlnum(ch) == ch \in {"h", "i", "j", "s", "0", "1", "2", "3", "4", "5", "6", "7", "8", "9"}

Normalised(text) ==
    [i \in 1..Len(text) |-> IF IsAlnum(Lower(text[i])) THEN Lower(text[i]) ELSE "-"]

\* A separator is kept when it is the first of its run and letters stand on
\* both sides of the run.
KeepChar(n, i) ==
    \/ n[i] # "-"
    \/ /\ i > 1
       /\ n[i - 1] # "-"
       /\ \E j \in (i + 1)..Len(n) : n[j] # "-"

RECURSIVE Filtered(_, _)
Filtered(n, i) ==
    IF i > Len(n) THEN <<>>
    ELSE (IF KeepChar(n, i) THEN <<n[i]>> ELSE <<>>) \o Filtered(n, i + 1)

generateSlug(text) == Filtered(Normalised(text), 1)

DigitChar == <<"0", "1", "2", "3", "4", "5", "6", "7", "8", "9">>

RECURSIVE Digits(_)
Digits(n) ==
    IF n < 10 THEN <<DigitChar[n + 1]>>
    ELSE Digits(n \div 10) \o <<DigitChar[(n % 10) + 1]>>

SuffixedOffByOne(baseSlug, counter) == baseSlug \o <<"-">> \o Digits(counter + 1)

\* `${baseSlug}-${slugCounter}`

Suffixed(baseSlug, counter) == baseSlug \o <<"-">> \o Digits(counter)

---------------------------------------------------------------------------
(* Request inputs. *)

NoUser == ""
Users == {"u1", "u2"}

Title1 == <<"H", "i", "!">>
Title2 == <<"h", "i", " ", "1">>
Titles == {Title1, Title2}

TagJS == <<[name |-> <<"J", "S">>]>>

NoDate == 0

Absent == [present |-> FALSE, value |-> FALSE]
Given(b) == [present |-> TRUE, value |-> b]
\* const { isPublished = true } = req.body
OrDefault(flag, dflt) == IF flag.present THEN flag.value ELSE dflt

\* The locals of postBlog after the destructuring of req.body.
Destructured(body) == [body EXCEPT !.isPublished = Given(OrDefault(@, TRUE))]

NoBody == [title |-> NoText, content |-> "", imageUrl |-> "", tags |-> <<>>,
           isPublished |-> Absent]

\* Request bodies: each leaves out or sets one field at a time.
CreateBodies ==
    {[NoBody EXCEPT !.title = Title1, !.content = "c"],
     [NoBody EXCEPT !.title = Title1, !.content = "c", !.tags = TagJS,
                    !.isPublished = Given(FALSE)],
     [NoBody EXCEPT !.title = Title1, !.content = "c", !.isPublished = Given(TRUE)],
     [NoBody EXCEPT !.content = "c"],
     [NoBody EXCEPT !.title = Title1]}

UpdateBodies ==
    {NoBody,
     [NoBody EXCEPT !.title = Title2],
     [NoBody EXCEPT !.imageUrl = "i"],
     [NoBody EXCEPT !.isPublished = Given(FALSE)],
     [NoBody EXCEPT !.isPublished = Given(TRUE)]}

NoBlog == [title |-> NoText, content |-> "", imageUrl |-> "", slug |-> NoText,
           author |-> NoUser, tags |-> <<>>, isPublished |-> FALSE,
           isDraft |-> FALSE, publishedAt |-> NoDate, updatedAt |-> NoDate]

---------------------------------------------------------------------------
(* The store. *)

StoredSlugs == {blogs[i].slug : i \in DOMAIN blogs}

\* BlogModel.findOne({ slug }): the ids of the documents with that slug.
FindBySlug(slug) == {i \in DOMAIN blogs : blogs[i].slug = slug}

\* The truthiness of `await BlogModel.findOne({ slug })` in the probing loop.
SlugTaken(slug) == FindBySlug(slug) # {}

DuplicateKeyNever(slug) == FALSE

\* The unique index on slug: an insert of a slug already stored is refused.
DuplicateKey(slug) == \E i \in DOMAIN blogs : blogs[i].slug = slug

\* The document tracks the paths whose assigned value differs from the value
\* loaded; of the loaded document a request keeps those paths only.
ModifiedPaths(orig, doc) == {f \in DOMAIN doc : doc[f] # orig[f]}

Modified(orig, doc) ==
    [f \in DOMAIN doc |-> IF f \in ModifiedPaths(orig, doc) THEN doc[f] ELSE NoBlog[f]]

\* existingBlog.save() writes the modified paths and leaves the other paths
\* of the stored document alone.
SaveChanges(stored, paths, doc) ==
    [f \in DOMAIN stored |-> IF f \in paths THEN doc[f] ELSE stored[f]]

FormatTags(tags) ==
    [i \in 1..Len(tags) |-> [name |-> tags[i].name, slug |-> generateSlug(tags[i].name)]]

\* new BlogModel({...}) of postBlog; updatedAt is the creation timestamp.
NewBlog(body, slug, authorId, t) ==
    LET isPublished == OrDefault(body.isPublished, TRUE) IN
    [title |-> body.title, content |-> body.content, imageUrl |-> body.imageUrl,
     slug |-> slug, author |-> authorId, tags |-> FormatTags(body.tags),
     isPublished |-> isPublished, isDraft |-> ~isPublished,
     publishedAt |-> IF isPublished THEN t ELSE NoDate, updatedAt |-> t]

ApplyPatchOverwrites(blog, body, t) ==
    LET isPublished == OrDefault(body.isPublished, TRUE) IN
    [blog EXCEPT !.title = body.title, !.content = body.content,
                 !.imageUrl = body.imageUrl, !.tags = FormatTags(body.tags),
                 !.isPublished = isPublished, !.isDraft = ~isPublished,
                 !.updatedAt = t]

ApplyPatchRecomputesPublishedAt(blog, body, t) ==
    LET isPublished == OrDefault(body.isPublished, TRUE) IN
    [blog EXCEPT !.title = IF body.title # NoText THEN body.title ELSE @,
                 !.content = IF body.content # "" THEN body.content ELSE @,
                 !.imageUrl = IF body.imageUrl # "" THEN body.imageUrl ELSE @,
                 !.tags = IF Len(body.tags) > 0 THEN FormatTags(body.tags) ELSE @,
                 !.isPublished = isPublished,
                 !.isDraft = ~isPublished,
                 !.publishedAt = IF isPublished THEN t ELSE NoDate,
                 !.updatedAt = t]

ApplyPatchRegeneratesSlug(blog, body, t) ==
    LET isPublished == OrDefault(body.isPublished, TRUE) IN
    [blog EXCEPT !.title = IF body.title # NoText THEN body.title ELSE @,
                 !.slug = IF body.title # NoText THEN generateSlug(body.title) ELSE @,
                 !.content = IF body.content # "" THEN body.content ELSE @,
                 !.imageUrl = IF body.imageUrl # "" THEN body.imageUrl ELSE @,
                 !.tags = IF Len(body.tags) > 0 THEN FormatTags(body.tags) ELSE @,
                 !.isPublished = isPublished,
                 !.isDraft = ~isPublished,
                 !.updatedAt = t]

ApplyPatchKeepsDraftFlag(blog, body, t) ==
    LET isPublished == OrDefault(body.isPublished, TRUE) IN
    [blog EXCEPT !.title = IF body.title # NoText THEN body.title ELSE @,
                 !.content = IF body.content # "" THEN body.content ELSE @,
                 !.imageUrl = IF body.imageUrl # "" THEN body.imageUrl ELSE @,
                 !.tags = IF Len(body.tags) > 0 THEN FormatTags(body.tags) ELSE @,
                 !.isPublished = isPublished,
                 !.updatedAt = t]

\* The assignments of updateBlogController to the loaded document.
ApplyPatch(blog, body, t) ==
    LET isPublished == OrDefault(body.isPublished, TRUE) IN
    [blog EXCEPT !.title = IF body.title # NoText THEN body.title ELSE @,
                 !.content = IF body.content # "" THEN body.content ELSE @,
                 !.imageUrl = IF body.imageUrl # "" THEN body.imageUrl ELSE @,
                 !.tags = IF Len(body.tags) > 0 THEN FormatTags(body.tags) ELSE @,
                 !.isPublished = isPublished,
                 !.isDraft = ~isPublished,
                 !.updatedAt = t]

IsOwnerAlways(blog, authorId) == TRUE

\* existingBlog.author.toString() !== authorId  ->  403
IsOwner(blog, authorId) == blog.author = authorId

MissingParamNever(slug, authorId) == FALSE

\* !slug || !authorId  ->  400
MissingParam(slug, authorId) == slug = NoText \/ authorId = NoUser

---------------------------------------------------------------------------
(* Requests suspended at an await. *)

Request(op, pc, user, slug, body) ==
    [op |-> op, pc |-> pc, user |-> user, slug |-> slug, body |-> body,
     baseSlug |-> NoText, slugCounter |-> 0, alone |-> TRUE,
     id |-> 0, paths |-> {}, doc |-> NoBlog]

Requests == BagToSet(inflight)

Suspend(r) == inflight (+) SetToBag({r})
Resume(r, bag) == bag (-) SetToBag({r})

\* Another request has written to the store: the requests in progress no
\* longer run alone.
Disturbed(r) == [r EXCEPT !.alone = FALSE]

RECURSIVE SumCopies(_, _)
SumCopies(S, bag) ==
    IF S = {} THEN 0
    ELSE LET e == CHOOSE x \in S : TRUE
         IN CopiesIn(e, bag) + SumCopies(S \ {e}, bag)

Disturb(bag) ==
    LET S == BagToSet(bag)
        T == {Disturbed(e) : e \in S}
    IN [t \in T |-> SumCopies({e \in S : Disturbed(e) = t}, bag)]

Creating == SumCopies({r \in Requests : r.op = "create"}, inflight)

Response(op, status, id) == [op |-> op, status |-> status, id |-> id]

---------------------------------------------------------------------------
(* The create / create / delete / create sequence, followed through the    *)
(* store's writes: stage 1 after an article took its candidate c as slug,  *)
(* 2 after the next insert took c-1 from the same candidate, 3 after the   *)
(* next write deleted the first article, 4 after the next insert, from     *)
(* the same candidate again, by a request that began after the delete.     *)

NoScen == [stage |-> 0, c |-> NoText, first |-> 0, slug3 |-> NoText]

ScenAfterCreate(r, id) ==
    IF scen.stage = 1 /\ r.baseSlug = scen.c /\ r.doc.slug = Suffixed(scen.c, 1)
    THEN [scen EXCEPT !.stage = 2]
    ELSE IF scen.stage = 3 /\ r.baseSlug = scen.c /\ r.alone
    THEN [scen EXCEPT !.stage = 4, !.slug3 = r.doc.slug]
    ELSE IF r.doc.slug = r.baseSlug
    THEN [stage |-> 1, c |-> r.baseSlug, first |-> id, slug3 |-> NoText]
    ELSE NoScen

ScenAfterDelete(id) ==
    IF scen.stage = 2 /\ id = scen.first THEN [scen EXCEPT !.stage = 3] ELSE NoScen

Dirty(c) == [c EXCEPT !.clean = FALSE]

---------------------------------------------------------------------------
(* postBlog *)

ProbeStuck(r) ==
    IF SlugTaken(r.slug)
    THEN r
    ELSE [r EXCEPT !.pc = "save", !.doc = NewBlog(r.body, r.slug, r.user, now)]

\* One turn of `while (await BlogModel.findOne({ slug }))`: the slug is moved
\* to the next suffix, or the loop ends and the document is built and handed
\* to save().
Probe(r) ==
    IF SlugTaken(r.slug)
    THEN [r EXCEPT !.slug = Suffixed(r.baseSlug, r.slugCounter),
                   !.slugCounter = @ + 1]
    ELSE [r EXCEPT !.pc = "save", !.doc = NewBlog(r.body, r.slug, r.user, now)]

PostBlogNoAuth(body, user) ==
    /\ IF body.title = NoText \/ body.content = ""
       THEN /\ lastResp' = Response("create", 400, 0)
            /\ UNCHANGED inflight
       ELSE /\ BagCardinality(inflight) < MaxInflight
            /\ LET base == generateSlug(body.title) IN
               inflight' = Suspend(Probe(
                   [Request("create", "probe", user, base, Destructured(body))
                       EXCEPT !.baseSlug = base, !.slugCounter = 1]))
            /\ UNCHANGED lastResp
    /\ UNCHANGED <<blogs, nextId, now, chain, scen>>

\* The request arrives: validation, then the first existence check.
PostBlog(body, user) ==
    /\ IF body.title = NoText \/ body.content = ""
       THEN /\ lastResp' = Response("create", 400, 0)
            /\ UNCHANGED inflight
       ELSE IF user = NoUser
       THEN /\ lastResp' = Response("create", 401, 0)
            /\ UNCHANGED inflight
       ELSE /\ BagCardinality(inflight) < MaxInflight
            /\ LET base == generateSlug(body.title) IN
               inflight' = Suspend(Probe(
                   [Request("create", "probe", user, base, Destructured(body))
                       EXCEPT !.baseSlug = base, !.slugCounter = 1]))
            /\ UNCHANGED lastResp
    /\ UNCHANGED <<blogs, nextId, now, chain, scen>>

PostBlogProbe(r) ==
    /\ r.op = "create" /\ r.pc = "probe"
    /\ inflight' = Resume(r, inflight) (+) SetToBag({Probe(r)})
    /\ UNCHANGED <<blogs, nextId, now, lastResp, chain, scen>>

\* await newBlog.save()
PostBlogSave(r) ==
    /\ r.op = "create" /\ r.pc = "save"
    /\ IF DuplicateKey(r.doc.slug)
       THEN /\ lastResp' = Response("create", 500, 0)
            /\ inflight' = Resume(r, inflight)
            /\ UNCHANGED <<blogs, nextId, chain, scen>>
       ELSE /\ blogs' = blogs @@ (nextId :> r.doc)
            /\ nextId' = nextId + 1
            /\ lastResp' = Response("create", 201, nextId)
            /\ inflight' = Disturb(Resume(r, inflight))
            /\ chain' = Dirty(chain)
            /\ scen' = ScenAfterCreate(r, nextId)
    /\ UNCHANGED now

---------------------------------------------------------------------------
(* updateBlogController *)

\* The request arrives and findOne answers: 400 / 404 / 403, or the loaded
\* document is patched and handed to save().
UpdateBlog(slug, user, body) ==
    /\ IF MissingParam(slug, user)
       THEN /\ lastResp' = Response("update", 400, 0)
            /\ UNCHANGED inflight
       ELSE IF FindBySlug(slug) = {}
       THEN /\ lastResp' = Response("update", 404, 0)
            /\ UNCHANGED inflight
       ELSE \E id \in FindBySlug(slug) :
            IF ~IsOwner(blogs[id], user)
            THEN /\ lastResp' = Response("update", 403, id)
                 /\ UNCHANGED inflight
            ELSE /\ BagCardinality(inflight) < MaxInflight
                 /\ inflight' = Suspend(
                        [Request("update", "save", user, slug, body)
                            EXCEPT !.id = id,
                                   !.paths = ModifiedPaths(blogs[id], ApplyPatch(blogs[id], body, now)),
                                   !.doc = Modified(blogs[id], ApplyPatch(blogs[id], body, now))])
                 /\ UNCHANGED lastResp
    /\ UNCHANGED <<blogs, nextId, now, chain, scen>>

UpdateSaveUpserts(r) ==
    /\ r.op = "update" /\ r.pc = "save"
    /\ blogs' = IF r.id \in DOMAIN blogs
                THEN [blogs EXCEPT ![r.id] = SaveChanges(@, r.paths, r.doc)]
                ELSE blogs @@ (r.id :> r.doc)
    /\ lastResp' = Response("update", 200, r.id)
    /\ inflight' = Disturb(Resume(r, inflight))
    /\ chain' = Dirty(chain)
    /\ UNCHANGED <<nextId, now, scen>>

\* await existingBlog.save(): an update of the document with that _id; a
\* document that is gone is not written again, the save fails.
UpdateSave(r) ==
    /\ r.op = "update" /\ r.pc = "save"
    /\ IF r.id \in DOMAIN blogs
       THEN /\ blogs' = [blogs EXCEPT ![r.id] = SaveChanges(@, r.paths, r.doc)]
            /\ lastResp' = Response("update", 200, r.id)
            /\ inflight' = Disturb(Resume(r, inflight))
            /\ chain' = Dirty(chain)
       ELSE /\ lastResp' = Response("update", 500, r.id)
            /\ inflight' = Resume(r, inflight)
            /\ UNCHANGED <<blogs, chain>>
    /\ UNCHANGED <<nextId, now, scen>>

---------------------------------------------------------------------------
(* deleteBlogController *)

DeleteBlog(slug, user) ==
    /\ IF MissingParam(slug, user)
       THEN /\ lastResp' = Response("delete", 400, 0)
            /\ UNCHANGED inflight
       ELSE IF FindBySlug(slug) = {}
       THEN /\ lastResp' = Response("delete", 404, 0)
            /\ UNCHANGED inflight
       ELSE \E id \in FindBySlug(slug) :
            IF ~IsOwner(blogs[id], user)
            THEN /\ lastResp' = Response("delete", 403, id)
                 /\ UNCHANGED inflight
            ELSE /\ BagCardinality(inflight) < MaxInflight
                 /\ inflight' = Suspend(
                        [Request("delete", "delete", user, slug, NoBody)
                            EXCEPT !.id = id])
                 /\ UNCHANGED lastResp
    /\ UNCHANGED <<blogs, nextId, now, chain, scen>>

DeleteOneMisses(r) ==
    /\ r.op = "delete" /\ r.pc = "delete"
    /\ lastResp' = Response("delete", 200, r.id)
    /\ inflight' = Disturb(Resume(r, inflight))
    /\ chain' = Dirty(chain)
    /\ scen' = ScenAfterDelete(r.id)
    /\ UNCHANGED <<blogs, nextId, now>>

\* await BlogModel.deleteOne({ _id: blog._id })
DeleteOne(r) ==
    /\ r.op = "delete" /\ r.pc = "delete"
    /\ lastResp' = Response("delete", 200, r.id)
    /\ IF r.id \in DOMAIN blogs
       THEN /\ blogs' = [i \in DOMAIN blogs \ {r.id} |-> blogs[i]]
            /\ inflight' = Disturb(Resume(r, inflight))
            /\ chain' = Dirty(chain)
            /\ scen' = ScenAfterDelete(r.id)
       ELSE /\ inflight' = Resume(r, inflight)
            /\ UNCHANGED <<blogs, chain, scen>>
    /\ UNCHANGED <<nextId, now>>

---------------------------------------------------------------------------
(* getAllBlogs *)

\* parseInt(req.query.limit) || 10; a limit parameter of 0 stands for an
\* absent or non-numeric one too.
PageLimit(limitParam) == IF limitParam = 0 THEN DefaultLimit ELSE limitParam

MatchesInclusive(cursor) ==
    IF cursor = NoDate THEN DOMAIN blogs
    ELSE {i \in DOMAIN blogs :
            blogs[i].publishedAt # NoDate /\ blogs[i].publishedAt <= cursor}

\* query = {} without a cursor, { publishedAt: { $lt: cursor } } with one; a
\* document without a publishedAt date does not satisfy $lt.
Matches(cursor) ==
    IF cursor = NoDate THEN DOMAIN blogs
    ELSE {i \in DOMAIN blogs :
            blogs[i].publishedAt # NoDate /\ blogs[i].publishedAt < cursor}

\* .sort({ publishedAt: -1 }): the orders the store may answer in; documents
\* without a date come last, documents with equal dates in either order.
SortedDesc(S) ==
    {s \in [1..Cardinality(S) -> S] :
        /\ \A i, j \in DOMAIN s : i < j => s[i] # s[j]
        /\ \A i, j \in DOMAIN s :
              i < j => blogs[s[i]].publishedAt >= blogs[s[j]].publishedAt}

\* .select("title author publishedAt slug")
Item(i) ==
    [id |-> i, title |-> blogs[i].title, author |-> blogs[i].author,
     publishedAt |-> blogs[i].publishedAt, slug |-> blogs[i].slug]

\* .limit(limit + 1), hasNextPage, slice(0, -1) and nextCursor.
Page(limitParam, sorted) ==
    LET limit == PageLimit(limitParam)
        found == SubSeq(sorted, 1,
                        IF Len(sorted) < limit + 1 THEN Len(sorted) ELSE limit + 1)
        hasNextPage == Len(found) > limit
        paginatedBlogs == IF hasNextPage THEN SubSeq(found, 1, Len(found) - 1)
                          ELSE found
    IN [blogs |-> [i \in 1..Len(paginatedBlogs) |-> Item(paginatedBlogs[i])],
        nextCursor |-> IF hasNextPage
                       THEN blogs[paginatedBlogs[Len(paginatedBlogs)]].publishedAt
                       ELSE NoDate]

NoChain == [active |-> FALSE, limit |-> 0, pages |-> <<>>, clean |-> FALSE]

LastPage == chain.pages[Len(chain.pages)]

\* The chain has ended: the last response carried no next cursor.
ChainDone == chain.active /\ LastPage.nextCursor = NoDate

\* A client asks for the first page, without a cursor.
FeedFirst(limitParam) ==
    /\ \E sorted \in SortedDesc(Matches(NoDate)) :
          chain' = [active |-> TRUE, limit |-> limitParam,
                    pages |-> <<Page(limitParam, sorted)>>, clean |-> TRUE]
    /\ lastResp' = Response("list", 200, 0)
    /\ UNCHANGED <<blogs, nextId, now, inflight, scen>>

\* The client asks for the next page with the nextCursor it was given.
FeedNext ==
    /\ chain.active /\ ~ChainDone
    /\ \E sorted \in SortedDesc(Matches(LastPage.nextCursor)) :
          chain' = [chain EXCEPT !.pages = Append(@, Page(chain.limit, sorted))]
    /\ lastResp' = Response("list", 200, 0)
    /\ UNCHANGED <<blogs, nextId, now, inflight, scen>>

---------------------------------------------------------------------------

\* Time passes.
Tick ==
    /\ now < MaxTime
    /\ now' = now + 1
    /\ UNCHANGED <<blogs, nextId, inflight, lastResp, chain, scen>>

Init ==
    /\ blogs = <<>>
    /\ nextId = 1
    /\ now = 1
    /\ inflight = EmptyBag
    /\ lastResp = Response("none", 0, 0)
    /\ chain = NoChain
    /\ scen = NoScen

Slugs == {NoText} \cup {generateSlug(t) : t \in Titles}
                  \cup {Suffixed(generateSlug(Title1), k) : k \in 1..MaxBlogs}

\* At most n articles are ever inserted.
Room(n) == (nextId - 1) + Creating < n

EditSlugs == {generateSlug(Title1), generateSlug(Title2)}

(* Editing: one author creates an article and patches or deletes it, with *)
(* every kind of body. A create begins only while no article is stored or  *)
(* being created, so its first existence check ends the probing loop.      *)
Next ==
    \/ Tick
    \/ \E body \in CreateBodies :
          Room(MaxEdited) /\ StoredSlugs = {} /\ PostBlog(body, "u1")
    \/ \E r \in Requests : PostBlogSave(r)
    \/ \E slug \in EditSlugs, body \in UpdateBodies : UpdateBlog(slug, "u1", body)
    \/ \E r \in Requests : UpdateSave(r)
    \/ \E slug \in EditSlugs : DeleteBlog(slug, "u1")
    \/ \E r \in Requests : DeleteOne(r)

Spec == Init /\ [][Next]_vars

(* Slugs: one author creates and deletes articles whose titles share       *)
(* candidates.                                                             *)
SlugBodies ==
    [title : Titles, content : {"c"}, imageUrl : {""}, tags : {<<>>},
     isPublished : {Absent}]

SlugUsers == {"u1"}

SlugNext ==
    \/ \E body \in SlugBodies, user \in SlugUsers :
          Room(MaxBlogs) /\ PostBlog(body, user)
    \/ \E r \in Requests : PostBlogProbe(r)
    \/ \E r \in Requests : PostBlogSave(r)
    \/ \E slug \in Slugs, user \in SlugUsers : DeleteBlog(slug, user)
    \/ \E r \in Requests : DeleteOne(r)

SlugSpec == Init /\ [][SlugNext]_vars

\* The store answers every findOne and the event loop resumes the handler
\* that awaits it: a probing loop that can take its next turn takes it.
FairSlugSpec == SlugSpec /\ WF_vars(\E r \in Requests : PostBlogProbe(r))

(* The feed: one author publishes, unpublishes and deletes articles while  *)
(* a client pages through the feed.                                        *)
FeedBodies ==
    [title : {Title1}, content : {"c"}, imageUrl : {""}, tags : {<<>>},
     isPublished : {Absent, Given(FALSE)}]

FeedPatches ==
    [title : {NoText}, content : {""}, imageUrl : {""}, tags : {<<>>},
     isPublished : {Absent, Given(FALSE)}]

FeedSlugs == {generateSlug(Title1)}
                 \cup {Suffixed(generateSlug(Title1), k) : k \in 1..(MaxListed - 1)}

FeedStep ==
    \/ Tick
    \/ \E body \in FeedBodies :
          Room(MaxListed) /\ BagCardinality(inflight) < MaxFeedInflight /\ PostBlog(body, "u1")
    \/ \E r \in Requests : PostBlogProbe(r)
    \/ \E r \in Requests : PostBlogSave(r)
    \/ \E slug \in FeedSlugs, body \in FeedPatches :
          BagCardinality(inflight) < MaxFeedInflight /\ UpdateBlog(slug, "u1", body)
    \/ \E r \in Requests : UpdateSave(r)
    \/ \E slug \in FeedSlugs :
          BagCardinality(inflight) < MaxFeedInflight /\ DeleteBlog(slug, "u1")
    \/ \E r \in Requests : DeleteOne(r)
    \/ \E limitParam \in 0..MaxLimit : FeedFirst(limitParam)
    \/ FeedNext

FeedSpec == Init /\ [][FeedStep]_vars

---------------------------------------------------------------------------
(* Ownership and refusals: two identities and anonymous requests act on   *)
(* each other's articles. A create that passes validation arrives only    *)
(* while its candidate is free, so its first existence check ends the      *)
(* probing loop; a create that is refused arrives at any time.             *)
OwnerBodies ==
    {[NoBody EXCEPT !.title = Title1, !.content = "c"],
     [NoBody EXCEPT !.title = Title2, !.content = "c"],
     [NoBody EXCEPT !.content = "c"],
     [NoBody EXCEPT !.title = Title1]}

OwnerPatches == {[NoBody EXCEPT !.title = Title2]}

OwnerSlugs == {NoText} \cup {generateSlug(t) : t \in Titles}

OwnerNext ==
    \/ \E body \in OwnerBodies, user \in Users \cup {NoUser} :
          /\ \/ body.title = NoText \/ body.content = "" \/ user = NoUser
             \/ Room(MaxOwned) /\ generateSlug(body.title) \notin StoredSlugs
          /\ PostBlog(body, user)
    \/ \E r \in Requests : PostBlogSave(r)
    \/ \E slug \in OwnerSlugs, user \in Users \cup {NoUser}, body \in OwnerPatches :
          UpdateBlog(slug, user, body)
    \/ \E r \in Requests : UpdateSave(r)
    \/ \E slug \in OwnerSlugs, user \in Users \cup {NoUser} : DeleteBlog(slug, user)
    \/ \E r \in Requests : DeleteOne(r)

OwnerSpec == Init /\ [][OwnerNext]_vars

---------------------------------------------------------------------------
(* Claims. *)

Hi == <<"h", "i">>

WithSuffix(c, k) == c \o <<"-">> \o Digits(k)

\* C1: in every reachable state, whatever the interleaving of create requests
\* with the same slug candidate, no two stored articles have the same slug.
C1_UniqueSlugs ==
    \A i, j \in DOMAIN blogs : i # j => blogs[i].slug # blogs[j].slug

\* Two creates raced for one slug: one is stored, the other was refused.
C1_Witness ==
    /\ lastResp = Response("create", 500, 0)
    /\ Cardinality(DOMAIN blogs) >= 1

\* The slug C2 expects for candidate c over the stored slugs S.
FirstFree(c, S) ==
    IF c \notin S THEN c
    ELSE WithSuffix(c, CHOOSE k \in 1..(Cardinality(S) + 1) :
                          /\ WithSuffix(c, k) \notin S
                          /\ \A m \in 1..(k - 1) : WithSuffix(c, m) \in S)

\* C2: a create that ran with no write of another request in between stores
\* the candidate c if c is free, else c-k for the smallest k >= 1 with c-k
\* free; the stored slug is none of the slugs present before.
C2_FirstFreeSlug ==
    [][\A r \in Requests :
          (PostBlogSave(r) /\ r.alone) =>
             /\ lastResp'.status = 201
             /\ DOMAIN blogs' = DOMAIN blogs \cup {lastResp'.id}
             /\ lastResp'.id \notin DOMAIN blogs
             /\ blogs'[lastResp'.id].slug = FirstFree(r.baseSlug, StoredSlugs)
             /\ blogs'[lastResp'.id].slug \notin StoredSlugs]_vars

\* A create has stored hi-2 because hi and hi-1 were taken.
C2_Witness ==
    /\ lastResp.op = "create" /\ lastResp.status = 201
    /\ lastResp.id \in DOMAIN blogs
    /\ blogs[lastResp.id].slug = WithSuffix(Hi, 2)
    /\ {Hi, WithSuffix(Hi, 1)} \subseteq StoredSlugs
    /\ inflight = EmptyBag

\* C3 as stated: after create (slug c), create (slug c-1), delete of the
\* first, the next create from the same candidate stores c-2.
C3_ThirdGetsSuffixTwo ==
    scen.stage = 4 => scen.slug3 = WithSuffix(scen.c, 2)

\* C3, amended: after create (slug c), create (slug c-1), delete of the first,
\* the next create from the same candidate stores c again.
C3_ThirdReusesCandidate ==
    scen.stage = 4 => scen.slug3 = scen.c

\* The sequence has run to its fourth step.
C3_Witness == scen.stage = 4 /\ WithSuffix(scen.c, 1) \in StoredSlugs

Published == {i \in DOMAIN blogs : blogs[i].isPublished}

RECURSIVE Concat(_)
Concat(pages) ==
    IF pages = <<>> THEN <<>> ELSE pages[1].blogs \o Concat(Tail(pages))

ChainItems == Concat(chain.pages)

\* The chain has ended and the store is as it was when the chain began.
ChainOverFixedStore == ChainDone /\ chain.clean /\ chain.limit >= 1

\* C4: over an unchanged store of M published articles and a page size L with
\* 1 <= L < M, the chain returns exactly the M published articles, each once,
\* strictly decreasing by publishedAt.
C4_ChainReturnsAll ==
    (ChainOverFixedStore /\ chain.limit < Cardinality(Published)) =>
       /\ Len(ChainItems) = Cardinality(Published)
       /\ {ChainItems[k].id : k \in DOMAIN ChainItems} = Published
       /\ \A k \in 1..(Len(ChainItems) - 1) :
             ChainItems[k].publishedAt > ChainItems[k + 1].publishedAt

\* C5: when the number M of published articles is a positive multiple of the
\* page size L, the last page of a chain over an unchanged store has exactly L
\* items and no next cursor, and every earlier page has exactly L items and
\* the publishedAt of its last item as next cursor.
C5_FullLastPage ==
    (/\ ChainOverFixedStore
     /\ Cardinality(Published) >= 1
     /\ Cardinality(Published) % chain.limit = 0) =>
       \A p \in DOMAIN chain.pages :
          /\ Len(chain.pages[p].blogs) = chain.limit
          /\ p < Len(chain.pages) =>
                /\ chain.pages[p].nextCursor # NoDate
                /\ chain.pages[p].nextCursor =
                      chain.pages[p].blogs[chain.limit].publishedAt

\* C6: a stored article is changed or removed only by the write of an update
\* or delete request whose acting identity is the article's author.
C6_OnlyAuthorWrites ==
    [][\A i \in DOMAIN blogs :
          (i \notin DOMAIN blogs' \/ blogs'[i] # blogs[i]) =>
             \E r \in Requests :
                /\ r.id = i
                /\ r.user # NoUser
                /\ r.user = blogs[i].author
                /\ \/ r.op = "update" /\ UpdateSave(r)
                   \/ r.op = "delete" /\ DeleteOne(r)]_vars

\* The author's delete has removed the article.
C6_Witness ==
    /\ lastResp.op = "delete" /\ lastResp.status = 200
    /\ lastResp.id \in 1..(nextId - 1)
    /\ lastResp.id \notin DOMAIN blogs

\* C7: update and delete answer 400 when slug or identity is missing, else
\* 404 when no stored article has the slug, else 403 when the article's
\* author is not the acting identity; the store is then left as it was.
C7_Refusals ==
    [][\A slug \in OwnerSlugs, user \in Users \cup {NoUser} :
          ((\E body \in OwnerPatches : UpdateBlog(slug, user, body))
              \/ DeleteBlog(slug, user)) =>
             LET found == {i \in DOMAIN blogs : blogs[i].slug = slug} IN
             IF slug = NoText \/ user = NoUser
             THEN lastResp'.status = 400 /\ blogs' = blogs
             ELSE IF found = {}
             THEN lastResp'.status = 404 /\ blogs' = blogs
             ELSE IF \A i \in found : blogs[i].author # user
             THEN lastResp'.status = 403 /\ blogs' = blogs
             ELSE lastResp'.status \notin {400, 403, 404} \/ lastResp' = lastResp]_vars

\* A request by another identity was answered 403 and the article is there.
C7_Witness ==
    /\ lastResp.status = 403
    /\ lastResp.id \in DOMAIN blogs

\* C8: a successful update whose patch has no isPublished leaves isPublished
\* and isDraft of the article as they were.
C8_AbsentFlagKept ==
    [][\A r \in Requests :
          (UpdateSave(r) /\ lastResp'.status = 200 /\ ~r.body.isPublished.present) =>
             /\ blogs'[r.id].isPublished = blogs[r.id].isPublished
             /\ blogs'[r.id].isDraft = blogs[r.id].isDraft]_vars

ImageOnly(body) == body.imageUrl # "" /\ body = [NoBody EXCEPT !.imageUrl = body.imageUrl]

FrameOfImagePatch(r) ==
    /\ blogs'[r.id].title = blogs[r.id].title
    /\ blogs'[r.id].content = blogs[r.id].content
    /\ blogs'[r.id].tags = blogs[r.id].tags
    /\ blogs'[r.id].slug = blogs[r.id].slug

\* C9 as stated: a successful update whose patch holds imageUrl alone leaves
\* title, content, tags and slug unchanged and sets updatedAt to a newer
\* timestamp.
C9_UpdatedAtNewer ==
    [][\A r \in Requests :
          (UpdateSave(r) /\ lastResp'.status = 200 /\ ImageOnly(r.body)) =>
             /\ FrameOfImagePatch(r)
             /\ blogs'[r.id].updatedAt > blogs[r.id].updatedAt]_vars

\* C9, amended: such an update leaves title, content, tags and slug unchanged
\* and, when no other request wrote between its read and its save, leaves
\* updatedAt at the time of the request, which is the previous updatedAt or
\* later.
C9_UpdatedAtNotOlder ==
    [][\A r \in Requests :
          (UpdateSave(r) /\ lastResp'.status = 200 /\ ImageOnly(r.body)) =>
             /\ FrameOfImagePatch(r)
             /\ blogs'[r.id].imageUrl = r.body.imageUrl
             /\ r.alone =>
                   /\ blogs'[r.id].updatedAt >= blogs[r.id].updatedAt
                   /\ blogs'[r.id].updatedAt > blogs[r.id].updatedAt =>
                         blogs'[r.id].updatedAt = r.doc.updatedAt]_vars

\* An article with tags has received an image at a later time.
C9_Witness ==
    /\ lastResp.op = "update" /\ lastResp.status = 200
    /\ lastResp.id \in DOMAIN blogs
    /\ blogs[lastResp.id].imageUrl = "i"
    /\ blogs[lastResp.id].title = Title1
    /\ blogs[lastResp.id].tags # <<>>
    /\ blogs[lastResp.id].updatedAt = 2

\* C10: every stored article has isDraft = ~isPublished.
C10_DraftIsNotPublished ==
    \A i \in DOMAIN blogs : blogs[i].isDraft = ~blogs[i].isPublished

\* An article created as published was made a draft by an update.
C10_Witness ==
    /\ lastResp.op = "update" /\ lastResp.status = 200
    /\ lastResp.id \in DOMAIN blogs
    /\ blogs[lastResp.id].isDraft
    /\ blogs[lastResp.id].publishedAt # NoDate

\* C11: once an article's publishedAt holds a timestamp, the save of an update
\* request, whatever its patch, leaves publishedAt as it was.
C11_PublishedAtKept ==
    [][\A r \in Requests :
          (UpdateSave(r) /\ r.id \in DOMAIN blogs /\ blogs[r.id].publishedAt # NoDate) =>
             /\ r.id \in DOMAIN blogs'
             /\ blogs'[r.id].publishedAt = blogs[r.id].publishedAt]_vars

\* An article published at time 1 was unpublished by an update at time 2 and
\* still holds its publishedAt.
C11_Witness ==
    /\ lastResp.op = "update" /\ lastResp.status = 200
    /\ lastResp.id \in DOMAIN blogs
    /\ ~blogs[lastResp.id].isPublished
    /\ blogs[lastResp.id].publishedAt = 1
    /\ blogs[lastResp.id].updatedAt = 2

\* C12: every stored article with isPublished = TRUE has publishedAt set, also
\* an article created as a draft and published by an update.
C12_PublishedHasDate ==
    \A i \in DOMAIN blogs : blogs[i].isPublished => blogs[i].publishedAt # NoDate

\* C13: the save of every create request that passed validation answers 201
\* and stores a new article, also when creates from one candidate interleave.
C13_CreateSucceeds ==
    [][\A r \in Requests :
          PostBlogSave(r) =>
             /\ lastResp' = Response("create", 201, lastResp'.id)
             /\ lastResp'.id \notin DOMAIN blogs
             /\ DOMAIN blogs' = DOMAIN blogs \cup {lastResp'.id}]_vars

\* C14: the save of an update request leaves the article under its id, with
\* the slug and the author it had, and no step changes the slug or the author
\* of an article that stays stored.
C14_SlugAuthorIdKept ==
    [][/\ \A r \in Requests :
             UpdateSave(r) =>
                /\ DOMAIN blogs' = DOMAIN blogs
                /\ r.id \in DOMAIN blogs =>
                      /\ blogs'[r.id].slug = blogs[r.id].slug
                      /\ blogs'[r.id].author = blogs[r.id].author
       /\ \A i \in DOMAIN blogs \cap DOMAIN blogs' :
             /\ blogs'[i].slug = blogs[i].slug
             /\ blogs'[i].author = blogs[i].author]_vars

\* An update has changed the title of an article of u2; the slug is the one
\* derived from the title given at creation.
C14_Witness ==
    /\ lastResp.op = "update" /\ lastResp.status = 200
    /\ lastResp.id \in DOMAIN blogs
    /\ blogs[lastResp.id].title = Title2
    /\ blogs[lastResp.id].slug = Hi
    /\ blogs[lastResp.id].author = "u2"

\* C15: every item of a page the list-published operation returns, with or
\* without a cursor, is an article whose isPublished is TRUE at that moment.
C15_FeedOnlyPublished ==
    [][chain'.pages # chain.pages =>
          LET last == chain'.pages[Len(chain'.pages)] IN
          \A k \in DOMAIN last.blogs :
             /\ last.blogs[k].id \in DOMAIN blogs
             /\ blogs[last.blogs[k].id].isPublished]_vars

PageIds(p) == {chain.pages[p].blogs[k].id : k \in DOMAIN chain.pages[p].blogs}

C16_CreateRefusals ==
    [][\A body \in OwnerBodies, user \in Users \cup {NoUser} :
          PostBlog(body, user) =>
             IF body.title = NoText \/ body.content = ""
             THEN /\ lastResp' = Response("create", 400, 0)
                  /\ blogs' = blogs /\ nextId' = nextId /\ inflight' = inflight
             ELSE IF user = NoUser
             THEN /\ lastResp' = Response("create", 401, 0)
                  /\ blogs' = blogs /\ nextId' = nextId /\ inflight' = inflight
             ELSE lastResp' = lastResp /\ blogs' = blogs]_vars

\* An anonymous create was answered 401 while an article is stored.
C16_Witness ==
    /\ lastResp = Response("create", 401, 0)
    /\ DOMAIN blogs # {}
    /\ inflight = EmptyBag

\* C19: an id the store has handed out and that is no longer stored stays
\* absent in every later state; the save of an update that loaded the article
\* before its delete fails and writes nothing.
C19_DeletedStaysDeleted ==
    [][/\ \A i \in 1..(nextId - 1) : i \notin DOMAIN blogs => i \notin DOMAIN blogs'
       /\ \A r \in Requests :
             (UpdateSave(r) /\ r.id \notin DOMAIN blogs) =>
                blogs' = blogs /\ lastResp'.status = 500]_vars

\* An update that loaded the article before it was deleted has tried to save
\* after the delete.
C19_Witness ==
    /\ lastResp = Response("update", 500, lastResp.id)
    /\ lastResp.id \in 1..(nextId - 1)
    /\ lastResp.id \notin DOMAIN blogs

Probing == {r \in Requests : r.op = "create" /\ r.pc = "probe"}

\* C17: every probing loop ends; while no other request has written to the
\* store since the create began, the loop has met at most one stored slug
\* per turn; and the slug a loop ends with was found absent by the existence
\* check that ended it.
C17_ProbingEnds ==
    /\ []<>(Probing = {})
    /\ [](\A r \in Requests :
             (r.op = "create" /\ r.alone) =>
                r.slugCounter <= Cardinality(StoredSlugs) + 1)
    /\ [][\A r \in BagToSet(inflight') :
             (/\ r.op = "create" /\ r.pc = "save"
              /\ CopiesIn(r, inflight') > CopiesIn(r, inflight)
              /\ blogs' = blogs) =>
                r.doc.slug \notin StoredSlugs]_vars

\* A loop that ran alone has met hi and hi-1 and ended with hi-2.
C17_Witness ==
    \E r \in Requests :
       /\ r.op = "create" /\ r.pc = "save" /\ r.alone
       /\ r.slugCounter = 3
       /\ r.doc.slug = WithSuffix(Hi, 2)
       /\ {Hi, WithSuffix(Hi, 1)} \subseteq StoredSlugs

====
